---- MODULE Spec2Model ----
(***************************************************************************)
(* Model of the geometry / triangles crates.                               *)
(*                                                                         *)
(*   geometry/src/lib.rs   struct Point {x, y, z: f64}, enum Type          *)
(*                         {D1, D2, D3}, trait Dimensional                 *)
(*                         { fn dimensions(&self) -> Type }                *)
(*   triangles/src/lib.rs  struct Triangle {}, impl Dimensional for        *)
(*                         Triangle (returns Type::D2), and the test       *)
(*                         validate_type_test that builds a Triangle and   *)
(*                         calls dimensions() on it.                       *)
(*                                                                         *)
(* The state is the set of live values (Points, shape instances) and the   *)
(* callers of dimensions().  A call is two steps, Call (the receiver is    *)
(* borrowed as &self) and Return (the body runs and the value comes back), *)
(* so that calls of several callers on one instance interleave.            *)
(*                                                                         *)
(* f64 coordinates are represented by their number of halves, which is     *)
(* exact for every sample used: 1.0 is 2, 2.0 is 4, 5.5 is 11.             *)
(***************************************************************************)
EXTENDS Integers, Sequences, FiniteSets

\* ------------------------------------------------------------------ bounds
MaxPoints == 2
MaxShapes == 2
MaxCalls == 3
NThreads == 2

Threads == 1..NThreads

\* The coordinate triples callers construct Points with, in halves:
\* (1.0, 2.0, 5.5) and (-1.5, 0.0, 3.5).
PointInputs == {<<2, 4, 11>>, <<-3, 0, 7>>}

\* ------------------------------------------------------------------ state
VARIABLES
    points,  \* the live Points, in order of construction
    args,    \* args[i]: the coordinates points[i] was constructed with
    shapes,  \* the live shape instances, in order of construction
    pc,      \* pc[t]: "idle", "in_call" or "panicked"
    recv,    \* recv[t]: the value thread t borrowed as &self, or NoRef
    ret,     \* ret[t]: <<v>> with v the value t's last call returned, or <<>>
    hist     \* hist[i]: the values shapes[i].dimensions() returned, in order

vars == <<points, args, shapes, pc, recv, ret, hist>>

\* ------------------------------------------------------------ enum Type
\* A fieldless enum: the variants carry the implicit discriminants 0, 1, 2.
D1 == 0
D2 == 1
D3 == 2

Type == {D1, D2, D3}

\* matches!(v, Type::K): the pattern of a fieldless variant matches the value
\* with that variant's discriminant.
matches(v, k) == v = k

\* ---------------------------------------------------------- struct Point
\* Point with the first two fields exchanged in the struct expression.
PointSwapped(a, b, c) == [x |-> b, y |-> a, z |-> c]

\* The struct expression Point { x: a, y: b, z: c }.
Point(a, b, c) == [x |-> a, y |-> b, z |-> c]

\* The field expressions p.x, p.y, p.z, read together.
Fields(p) == <<p.x, p.y, p.z>>

\* ------------------------------------------------- outcomes of a call
\* A Rust call either returns a value or unwinds with a panic.
Returned(v) == [panicked |-> FALSE, value |-> v]
Unwound == [panicked |-> TRUE, value |-> 0 - 1]

\* ------------------------------------------------ struct Triangle and impl
\* The struct expression Triangle {}: no fields; the model keeps the type of
\* the value, which is what selects the impl.
Triangle == [kind |-> "Triangle"]

\* dimensions() bodies that differ from the source's: another variant, a
\* value outside the enum, a panic, and a category computed from the number of
\* live Points.
Triangle_dimensionsD3(self) == Returned(D3)

Triangle_dimensionsOutOfRange(self) == Returned(D3 + 1)

Triangle_dimensionsPanics(self) == Unwound

Triangle_dimensionsByPoints(self) ==
    Returned(IF Len(points) = 0 THEN D2 ELSE D3)

\* impl Dimensional for Triangle: fn dimensions(&self) -> Type { return Type::D2; }
Triangle_dimensions(self) == Returned(D2)

\* An implementer added to the program later (spec section 8, the extension
\* property): a one-dimensional shape whose dimensions() returns Type::D1.
Line == [kind |-> "Line"]

Line_dimensions(self) == Returned(D1)

\* --------------------------------------------------- trait Dimensional
\* Point given an impl of Dimensional as well.
ImplementorsWithPoint == {"Triangle", "Point"}

\* The types with an impl of Dimensional in the source.
Implementors == {"Triangle"}

\* The types with an impl once the extension's shape is added.
ExtImplementors == Implementors \cup {"Line"}

\* Resolution that ignores the receiver's type and takes the impl added last.
DispatchToNewest(self) == Line_dimensions(self)

\* x.dimensions() resolves to the impl of x's type.
Dimensional_dimensions(self) ==
    CASE self.kind = "Triangle" -> Triangle_dimensions(self)
      [] self.kind = "Line" -> Line_dimensions(self)

NoRef == [kind |-> "None", id |-> 0]

\* A reference to each live value.
Refs ==
    {[kind |-> shapes[i].kind, id |-> i] : i \in DOMAIN shapes}
        \cup {[kind |-> "Point", id |-> i] : i \in DOMAIN points}

\* The value a reference of a shape type points to.
Deref(r) == shapes[r.id]

RECURSIVE SumLen(_)
SumLen(h) == IF h = <<>> THEN 0 ELSE Len(Head(h)) + SumLen(Tail(h))

\* Calls of dimensions() started so far: the finished ones and those in flight.
CallsStarted == SumLen(hist) + Cardinality({t \in Threads : pc[t] # "idle"})

Init ==
    /\ points = <<>>
    /\ args = <<>>
    /\ shapes = <<>>
    /\ pc = [t \in Threads |-> "idle"]
    /\ recv = [t \in Threads |-> NoRef]
    /\ ret = [t \in Threads |-> <<>>]
    /\ hist = <<>>

\* Construction that writes the new coordinates into every live Point, as
\* if all Points shared one storage.
NewPointAliased(a, b, c) ==
    /\ Len(points) < MaxPoints
    /\ points' = [i \in 1..(Len(points) + 1) |-> Point(a, b, c)]
    /\ args' = Append(args, <<a, b, c>>)
    /\ UNCHANGED <<shapes, pc, recv, ret, hist>>

\* let p = Point { x: a, y: b, z: c };
NewPoint(a, b, c) ==
    /\ Len(points) < MaxPoints
    /\ points' = Append(points, Point(a, b, c))
    /\ args' = Append(args, <<a, b, c>>)
    /\ UNCHANGED <<shapes, pc, recv, ret, hist>>

\* A struct expression of a shape type: the new value joins the live ones.
NewShape(s) ==
    /\ Len(shapes) < MaxShapes
    /\ shapes' = Append(shapes, s)
    /\ hist' = Append(hist, <<>>)
    /\ UNCHANGED <<points, args, pc, recv, ret>>

\* let t = Triangle{};
NewTriangle == NewShape(Triangle)

\* The extension's shape is constructed.
NewLine == NewShape(Line)

\* Thread t evaluates r.dimensions(): the method exists for r when r's type
\* is among impls, and r is borrowed as &self.
Call(t, r, impls) ==
    /\ pc[t] = "idle"
    /\ CallsStarted < MaxCalls
    /\ r.kind \in impls
    /\ pc' = [pc EXCEPT ![t] = "in_call"]
    /\ recv' = [recv EXCEPT ![t] = r]
    /\ UNCHANGED <<points, args, shapes, ret, hist>>

\* A Return that also zeroes every live Point.
ReturnResetsPoints(t) ==
    /\ pc[t] = "in_call"
    /\ pc' = [pc EXCEPT ![t] = "idle"]
    /\ ret' = [ret EXCEPT ![t] = <<D2>>]
    /\ hist' = [hist EXCEPT ![recv[t].id] = Append(@, D2)]
    /\ recv' = [recv EXCEPT ![t] = NoRef]
    /\ points' = [i \in DOMAIN points |-> Point(0, 0, 0)]
    /\ UNCHANGED <<args, shapes>>

\* A Return that hands the value to every thread, as if the result went
\* through one slot shared by all callers.
ReturnSharedSlot(t) ==
    /\ pc[t] = "in_call"
    /\ pc' = [pc EXCEPT ![t] = "idle"]
    /\ ret' = [u \in Threads |-> <<D2>>]
    /\ hist' = [hist EXCEPT ![recv[t].id] = Append(@, D2)]
    /\ recv' = [recv EXCEPT ![t] = NoRef]
    /\ UNCHANGED <<points, args, shapes>>

\* The body of dimensions() runs for thread t's receiver and the call ends:
\* the value goes to the caller, or the caller unwinds.
Return(t) ==
    /\ pc[t] = "in_call"
    /\ LET out == Dimensional_dimensions(Deref(recv[t])) IN
         IF out.panicked
         THEN /\ pc' = [pc EXCEPT ![t] = "panicked"]
              /\ UNCHANGED <<ret, hist>>
         ELSE /\ pc' = [pc EXCEPT ![t] = "idle"]
              /\ ret' = [ret EXCEPT ![t] = <<out.value>>]
              /\ hist' = [hist EXCEPT ![recv[t].id] = Append(@, out.value)]
    /\ recv' = [recv EXCEPT ![t] = NoRef]
    /\ UNCHANGED <<points, args, shapes>>

CallStep == \E t \in Threads : \E r \in Refs : Call(t, r, Implementors)

ExtCallStep == \E t \in Threads : \E r \in Refs : Call(t, r, ExtImplementors)

ReturnStep == \E t \in Threads : Return(t)

NewPointStep == \E i \in PointInputs : NewPoint(i[1], i[2], i[3])

Next ==
    \/ NewPointStep
    \/ NewTriangle
    \/ CallStep
    \/ ReturnStep

Spec == Init /\ [][Next]_vars

\* The program with the extension's shape added.
NextExt ==
    \/ NewPointStep
    \/ NewTriangle
    \/ NewLine
    \/ ExtCallStep
    \/ ReturnStep

SpecExt == Init /\ [][NextExt]_vars

\* ------------------------------------------------------------- properties
TrianglesAt == {i \in DOMAIN shapes : shapes[i].kind = "Triangle"}

LinesAt == {i \in DOMAIN shapes : shapes[i].kind = "Line"}

\* Thread t's step ends a call of dimensions().
Returns(t) == pc[t] = "in_call" /\ pc'[t] # "in_call"

\* Thread t's step is part of a call of dimensions(): its start or its end.
InDimensions(t) == pc'[t] # pc[t]

\* C1: every value a Triangle's dimensions() has returned, whatever was
\* constructed or called before, is Type::D2: it matches D2 and matches
\* neither D1 nor D3.
C1_TriangleReturnsD2 ==
    /\ \A i \in TrianglesAt : \A k \in DOMAIN hist[i] :
         /\ matches(hist[i][k], D2)
         /\ ~matches(hist[i][k], D1)
         /\ ~matches(hist[i][k], D3)
    /\ \A t \in Threads : ret[t] \in {<<>>, <<D2>>}

\* A Triangle has answered twice while Points and another shape exist.
C1_Witness ==
    \E i \in TrianglesAt :
        Len(hist[i]) >= 2 /\ Len(points) > 0 /\ Len(shapes) > 1

\* C2: all the values one instance's dimensions() has returned equal the
\* first one, whatever operations happened between the calls.
C2_Deterministic ==
    \A i \in DOMAIN hist : \A k \in DOMAIN hist[i] : hist[i][k] = hist[i][1]

\* An instance has answered three times, with a Point constructed at some
\* moment of the run.
C2_Witness ==
    \E i \in DOMAIN hist : Len(hist[i]) >= 3 /\ Len(points) > 0

\* C3: no call of dimensions() ends in a panic, a call in progress can
\* always complete, and what it hands back is a Type value.
C3_Total ==
    \A t \in Threads :
        /\ pc[t] # "panicked"
        /\ pc[t] = "in_call" => ENABLED Return(t)
        /\ \A k \in DOMAIN ret[t] : ret[t][k] \in Type

\* A call has completed while another one is in progress.
C3_Witness ==
    \E t, u \in Threads :
        pc[t] = "idle" /\ ret[t] # <<>> /\ pc[u] = "in_call"

\* C4: Type has three pairwise distinct variants, and every returned value
\* matches exactly one of them.
C4_ExactlyOneVariant ==
    /\ Cardinality(Type) = 3
    /\ \A i \in DOMAIN hist : \A k \in DOMAIN hist[i] :
         Cardinality({v \in Type : matches(hist[i][k], v)}) = 1
    /\ \A t \in Threads : \A k \in DOMAIN ret[t] :
         Cardinality({v \in Type : matches(ret[t][k], v)}) = 1

\* A value has been returned and is held by a thread.
C4_Witness ==
    \E t \in Threads : ret[t] # <<>> /\ \E i \in DOMAIN hist : hist[i] # <<>>

\* C5: the step that constructs a Point from (a, b, c) yields a Point whose
\* x, y, z read back a, b, c; for (1.0, 2.0, 5.5) that is 1.0, 2.0, 5.5.
C5_ConstructReadBack ==
    [][Len(points') > Len(points) =>
        LET n == Len(points') IN
            /\ Fields(points'[n]) = args'[n]
            /\ args'[n] = <<2, 4, 11>> =>
                 points'[n].x = 2 /\ points'[n].y = 4 /\ points'[n].z = 11]_vars

\* A Point constructed from (1.0, 2.0, 5.5) is live.
C5_Witness ==
    \E i \in DOMAIN points : args[i] = <<2, 4, 11>> /\ points[i].x = 2

\* C6: a step of a dimensions() call leaves the receiver, every other shape
\* instance and every Point as they were; only the caller's own position
\* and result (pc, recv, ret, and the record hist of results) change.
C6_DimensionsChangesNothing ==
    [][(\E t \in Threads : InDimensions(t)) =>
        UNCHANGED <<points, args, shapes>>]_vars

\* A call has completed with two Points and two shapes live.
C6_Witness ==
    /\ \E t \in Threads : ret[t] # <<>>
    /\ Len(points) = 2
    /\ Len(shapes) = 2

\* C7: in the program with a D1 shape added, every Triangle still returns
\* D2 as in the program without it, the new shape returns D1, and every
\* result is handled by a consumer with arms for D1, D2 and D3.
C7_ExtensionKeepsTriangle ==
    /\ \A i \in TrianglesAt : \A k \in DOMAIN hist[i] : hist[i][k] = D2
    /\ \A i \in LinesAt : \A k \in DOMAIN hist[i] : hist[i][k] = D1
    /\ \A i \in DOMAIN hist : \A k \in DOMAIN hist[i] :
         \E v \in Type : matches(hist[i][k], v)
    /\ \A t \in Threads : pc[t] # "panicked"

\* A Triangle and the new shape have both answered.
C7_Witness ==
    /\ \E i \in TrianglesAt : hist[i] # <<>>
    /\ \E i \in LinesAt : hist[i] # <<>>

\* C8: every live Point holds the coordinates it was constructed with.
C8_PointImmutable ==
    /\ Len(points) = Len(args)
    /\ \A i \in DOMAIN points : Fields(points[i]) = args[i]

\* Two Points with different coordinates are live after a shape was
\* constructed and a call completed.
C8_Witness ==
    /\ Len(points) = 2
    /\ args[1] # args[2]
    /\ \E i \in DOMAIN hist : hist[i] # <<>>

\* C9: no call of dimensions() has a Point as its receiver, and results are
\* recorded for shape instances only.
C9_PointNotDimensional ==
    /\ \A t \in Threads :
         /\ recv[t].kind # "Point"
         /\ pc[t] = "in_call" => recv[t].kind = "Triangle"
    /\ DOMAIN hist = DOMAIN shapes

\* A call is in progress and one has completed while Points are live.
C9_Witness ==
    /\ Len(points) > 0
    /\ \E t \in Threads : pc[t] = "in_call"
    /\ \E i \in DOMAIN hist : hist[i] # <<>>

\* C10: when a thread's call on a Triangle ends, whatever the other threads
\* are doing, it returns D2, the instances are unchanged, and the other
\* threads' calls and results are untouched.
C10_ConcurrentCalls ==
    [][\A t \in Threads : Returns(t) =>
        /\ ret'[t] = <<D2>>
        /\ shapes' = shapes
        /\ \A u \in Threads \ {t} :
             pc'[u] = pc[u] /\ recv'[u] = recv[u] /\ ret'[u] = ret[u]]_vars

\* Two threads are inside dimensions() on the same Triangle, which has
\* already answered a call.
C10_Witness ==
    \E t, u \in Threads :
        /\ t # u
        /\ pc[t] = "in_call" /\ pc[u] = "in_call"
        /\ recv[t] = recv[u]
        /\ recv[t].kind = "Triangle"
        /\ hist[recv[t].id] # <<>>

====
